---- MODULE Spec2Model ----
(***************************************************************************)
(* The scan -> propose -> apply pipeline of GeminiAutoHealer                *)
(* (src/src/gemini_healer.py) over an in-memory POSIX file tree.            *)
(*                                                                         *)
(* A Python str is a sequence of one-character strings, so that the        *)
(* substring tests, splits and suffix tests of the code are computed and   *)
(* not assumed.  A file tree is a record [files, dirs]: files maps the      *)
(* absolute path of a regular file (a sequence of components) to its       *)
(* content, dirs is the set of absolute paths of directories.              *)
(***************************************************************************)
EXTENDS Integers, Sequences, FiniteSets, TLC

VARIABLES
    input,           \* the file tree the program was started on
    response,        \* what the advisory service answers to requests.post
    fs,              \* the file tree now
    pc,              \* position in run_auto_heal
    file_structure,  \* the files in the order os.walk listed them
    issues,          \* the issue messages of the last scan
    fixes,           \* the fix list handed to apply_fixes
    before,          \* the file tree on entry to apply_fixes
    applied_fixes,   \* the log apply_fixes returns
    trace,           \* what happened to each critical fix and each listed fix
    again            \* TRUE once a run of run_auto_heal has completed

vars == <<input, response, fs, pc, file_structure, issues, fixes, before,
          applied_fixes, trace, again>>

----------------------------------------------------------------------------
(* Bounds of the model *)

\* most files below the root in an initial tree of Spec
MaxFiles == 2
\* most files below the root in an initial tree of SpecAdvisory
MaxAdvisoryFiles == 2
\* most entries of a fix list sent by the advisory service
MaxFixes == 2

----------------------------------------------------------------------------
(* Python str operations *)

StartsWithAt(s, sub, i) ==
    /\ i >= 1
    /\ i + Len(sub) - 1 <= Len(s)
    /\ \A k \in 1..Len(sub) : s[i + k - 1] = sub[k]

\* the least and the greatest element of a set of positions; 0 when empty
First(hits) == IF hits = {} THEN 0 ELSE CHOOSE i \in hits : \A j \in hits : i <= j
Last(hits) == IF hits = {} THEN 0 ELSE CHOOSE i \in hits : \A j \in hits : i >= j

\* str.find and str.rfind, 1-based; 0 when sub does not occur
Find(s, sub) == First({i \in 1..Len(s) : StartsWithAt(s, sub, i)})
RFind(s, sub) == Last({i \in 1..Len(s) : StartsWithAt(s, sub, i)})

\* sub in s
Contains(s, sub) == Find(s, sub) # 0

\* s.startswith(p), s.endswith(p)
StartsWith(s, p) == StartsWithAt(s, p, 1)
EndsWith(s, p) == Len(p) <= Len(s) /\ StartsWithAt(s, p, Len(s) - Len(p) + 1)

\* s[i:] with i 1-based
From(s, i) == SubSeq(s, i, Len(s))

\* the characters of s that are not in drop, in order
RECURSIVE Without(_, _)
Without(s, drop) ==
    IF s = <<>> THEN <<>>
    ELSE IF Head(s) \in drop THEN Without(Tail(s), drop)
    ELSE <<Head(s)>> \o Without(Tail(s), drop)

UpperCase == <<"A","B","C","D","E","F","G","H","I","J","K","L","M",
               "N","O","P","Q","R","S","T","U","V","W","X","Y","Z">>
LowerCase == <<"a","b","c","d","e","f","g","h","i","j","k","l","m",
               "n","o","p","q","r","s","t","u","v","w","x","y","z">>

\* str.lower
Lower(s) ==
    [i \in 1..Len(s) |->
        IF \E k \in 1..26 : UpperCase[k] = s[i]
        THEN LowerCase[CHOOSE k \in 1..26 : UpperCase[k] = s[i]]
        ELSE s[i]]

\* s.lstrip('/')
RECURSIVE LStripSlash(_)
LStripSlash(s) ==
    IF s # <<>> /\ Head(s) = "/" THEN LStripSlash(Tail(s)) ELSE s

\* s.rstrip('/')
RECURSIVE RStripSlash(_)
RStripSlash(s) ==
    IF s # <<>> /\ s[Len(s)] = "/" THEN RStripSlash(SubSeq(s, 1, Len(s) - 1)) ELSE s

\* s.split(sep): the pieces between the occurrences of sep
RECURSIVE Split(_, _)
SplitAt(s, sep, i) ==
    IF i = 0 THEN <<s>>
    ELSE <<SubSeq(s, 1, i - 1)>> \o Split(From(s, i + Len(sep)), sep)

Split(s, sep) == SplitAt(s, sep, Find(s, sep))

\* os.path.basename, os.path.dirname, os.path.join (posixpath)
Basename(p) == From(p, RFind(p, <<"/">>) + 1)

\* head.rstrip('/') unless head is made of slashes only
StripHead(head, stripped) == IF stripped # <<>> THEN stripped ELSE head

DirnameOfHead(head) == StripHead(head, RStripSlash(head))

Dirname(p) == DirnameOfHead(SubSeq(p, 1, RFind(p, <<"/">>)))

Join(a, b) ==
    IF StartsWith(b, <<"/">>) THEN b
    ELSE IF a = <<>> \/ EndsWith(a, <<"/">>) THEN a \o b
    ELSE a \o <<"/">> \o b

----------------------------------------------------------------------------
(* The file tree: what os.path.exists, os.makedirs, os.rename, shutil.move  *)
(* and open(.., 'w') do on a POSIX file system                             *)

\* the components of a path string
Components(p) == Split(p, <<"/">>)

IsDir(t, path) == path \in t.dirs
IsFile(t, path) == path \in DOMAIN t.files
Present(t, path) == IsDir(t, path) \/ IsFile(t, path)

Parent(path) == IF path = <<>> THEN <<>> ELSE SubSeq(path, 1, Len(path) - 1)

\* path lies in the subtree of top (top itself included)
Under(path, top) == Len(top) <= Len(path) /\ SubSeq(path, 1, Len(top)) = top

\* The kernel's path walk from directory cur: every component but the last
\* must lead to an existing directory; the last one may name nothing.
RECURSIVE WalkFrom(_, _, _)
WalkFrom(t, cur, comps) ==
    IF comps = <<>> THEN [ok |-> TRUE, path |-> cur]
    ELSE IF ~IsDir(t, cur) THEN [ok |-> FALSE, path |-> cur]
    ELSE IF Head(comps) \in {<<>>, <<".">>} THEN WalkFrom(t, cur, Tail(comps))
    ELSE IF Head(comps) = <<".", ".">> THEN WalkFrom(t, Parent(cur), Tail(comps))
    ELSE WalkFrom(t, cur \o <<Head(comps)>>, Tail(comps))

Resolve(t, p) == WalkFrom(t, <<>>, Components(p))

\* os.path.exists(p)
ExistsAt(t, r) == r.ok /\ Present(t, r.path)
Exists(t, p) == ExistsAt(t, Resolve(t, p))

\* os.makedirs(p, exist_ok=True): creates every missing directory on the way;
\* fails at a component that is a regular file, keeping what it created.
RECURSIVE MakedirsFrom(_, _, _)
MakedirsFrom(t, cur, comps) ==
    IF comps = <<>> THEN [ok |-> TRUE, fs |-> t]
    ELSE IF Head(comps) \in {<<>>, <<".">>} THEN MakedirsFrom(t, cur, Tail(comps))
    ELSE IF Head(comps) = <<".", ".">> THEN MakedirsFrom(t, Parent(cur), Tail(comps))
    ELSE LET next == cur \o <<Head(comps)>>
         IN  IF IsFile(t, next) THEN [ok |-> FALSE, fs |-> t]
             ELSE MakedirsFrom([t EXCEPT !.dirs = @ \cup {next}], next, Tail(comps))

Makedirs(t, p) == MakedirsFrom(t, <<>>, Components(p))

\* the tree with the subtree at src moved to dst
MoveSubtree(t, src, dst) ==
    LET moved(path) == dst \o SubSeq(path, Len(src) + 1, Len(path))
        stayF == {f \in DOMAIN t.files : ~Under(f, src)}
        goF == {f \in DOMAIN t.files : Under(f, src)}
        newF == stayF \cup {moved(f) : f \in goF}
    IN  [files |-> [f \in newF |->
                       IF \E g \in goF : moved(g) = f
                       THEN t.files[CHOOSE g \in goF : moved(g) = f]
                       ELSE t.files[f]],
         dirs |-> {d \in t.dirs : ~Under(d, src)}
                      \cup {moved(d) : d \in {e \in t.dirs : Under(e, src)}}]

\* os.rename(src, dst) on POSIX, s and d being what src and dst resolve to:
\* a regular file replaces an existing regular file silently; renaming onto
\* or into the wrong kind of entry fails.
RenameAt(t, s, d) ==
    IF ~(s.ok /\ Present(t, s.path)) \/ ~d.ok THEN [ok |-> FALSE, fs |-> t]
    ELSE IF s.path = d.path THEN [ok |-> TRUE, fs |-> t]
    ELSE IF IsFile(t, s.path) THEN
        IF IsDir(t, d.path) \/ ~IsDir(t, Parent(d.path)) THEN [ok |-> FALSE, fs |-> t]
        ELSE [ok |-> TRUE,
              fs |-> [t EXCEPT !.files =
                        [f \in (DOMAIN t.files \ {s.path}) \cup {d.path} |->
                            IF f = d.path THEN t.files[s.path] ELSE t.files[f]]]]
    ELSE IF IsFile(t, d.path) \/ Under(d.path, s.path)
            \/ ~IsDir(t, Parent(d.path)) THEN [ok |-> FALSE, fs |-> t]
    ELSE IF IsDir(t, d.path)
            /\ \E x \in t.dirs \cup DOMAIN t.files : x # d.path /\ Under(x, d.path)
        THEN [ok |-> FALSE, fs |-> t]
    ELSE [ok |-> TRUE,
          fs |-> MoveSubtree([t EXCEPT !.dirs = @ \ {d.path}], s.path, d.path)]

Rename(t, src, dst) == RenameAt(t, Resolve(t, src), Resolve(t, dst))

\* shutil.move(src, dst): into dst when dst is a directory, else os.rename
ShutilMoveAt(t, s, d, inside) ==
    IF d.ok /\ IsDir(t, d.path) /\ s.path # d.path
    THEN IF ExistsAt(t, inside) THEN [ok |-> FALSE, fs |-> t]
         ELSE RenameAt(t, s, inside)
    ELSE RenameAt(t, s, d)

ShutilMove(t, src, dst) ==
    ShutilMoveAt(t, Resolve(t, src), Resolve(t, dst),
                 Resolve(t, Join(dst, Basename(RStripSlash(src)))))

\* open(p, 'w') and write: creates or truncates the regular file p
OpenWriteAt(t, r, content) ==
    IF ~r.ok \/ IsDir(t, r.path) \/ ~IsDir(t, Parent(r.path))
    THEN [ok |-> FALSE, fs |-> t]
    ELSE [ok |-> TRUE,
          fs |-> [t EXCEPT !.files =
                    [f \in DOMAIN t.files \cup {r.path} |->
                        IF f = r.path THEN content ELSE t.files[f]]]]

OpenWrite(t, p, content) == OpenWriteAt(t, Resolve(t, p), content)

----------------------------------------------------------------------------
(* detect_file_issues and scan_project_structure *)

\* the project root handed to run_auto_heal, as a string and as a path
root_path == <<"/","r">>
RootDir == <<<<"r">>>>

\* a path of the tree as a path string
RECURSIVE PathStr(_)
PathStr(path) ==
    IF path = <<>> THEN <<>> ELSE <<"/">> \o Head(path) \o PathStr(Tail(path))

MsgCritical == <<"C","R","I","T","I","C","A","L",":"," ","i","n","d","e","x",".","h","t","m"," ","s","h","o","u","l","d"," ","b","e"," ","i","n","d","e","x",".","h","t","m","l"," ","f","o","r"," ","N","e","t","l","i","f","y"," ","d","e","p","l","o","y","m","e","n","t">>
MsgIncorrect(filename) ==
    <<"I","n","c","o","r","r","e","c","t"," ","e","x","t","e","n","s","i","o","n",":"," ">> \o filename \o <<" ","s","h","o","u","l","d"," ","b","e"," ">> \o filename \o <<"l">>
MsgSpecial(filename) == <<"S","p","e","c","i","a","l"," ","c","h","a","r","a","c","t","e","r","s"," ","i","n"," ","f","i","l","e","n","a","m","e",":"," ">> \o filename
MsgSpaces(filename) == <<"S","p","a","c","e","s"," ","i","n"," ","f","i","l","e","n","a","m","e",":"," ">> \o filename
MsgUppercase(filename) == <<"U","p","p","e","r","c","a","s","e"," ","l","e","t","t","e","r","s"," ","i","n"," ","f","i","l","e","n","a","m","e",":"," ">> \o filename
MsgSuspicious(filename) == <<"S","u","s","p","i","c","i","o","u","s"," ","f","i","l","e"," ","e","x","t","e","n","s","i","o","n",":"," ">> \o filename
MsgMisplaced == <<"i","n","d","e","x",".","h","t","m","l"," ","s","h","o","u","l","d"," ","b","e"," ","i","n"," ","p","u","b","l","i","c","/"," ","d","i","r","e","c","t","o","r","y"," ","f","o","r"," ","N","e","t","l","i","f","y">>

\* the characters the pattern [!@#$%^&*()\s] matches
SpecialChars == {"!", "@", "#", "$", "%", "^", "&", "*", "(", ")", " ", "\t", "\n", "\r"}

MatchesSpecial(s) == \E i \in 1..Len(s) : s[i] \in SpecialChars

\* the extensions whose files may carry upper case
CaseExempt == {<<".","m","d">>, <<".","t","x","t">>, <<".","j","s","o","n">>, <<".","g","i","t","i","g","n","o","r","e">>}

If(cond, msg) == IF cond THEN <<msg>> ELSE <<>>

\* a variant that evaluates the space rule before the others
IssuesSpaceFirst(filename, file_dir) ==
    If(Contains(filename, <<" ">>), MsgSpaces(filename))
    \o If(filename = <<"i","n","d","e","x",".","h","t","m">>, MsgCritical)
    \o If(EndsWith(filename, <<".","h","t","m">>) /\ ~EndsWith(filename, <<".","h","t","m","l">>),
          MsgIncorrect(filename))
    \o If(MatchesSpecial(Without(filename, {" ", "-", "_"})), MsgSpecial(filename))
    \o If(filename # Lower(filename) /\ ~\E e \in CaseExempt : EndsWith(filename, e),
          MsgUppercase(filename))
    \o If(EndsWith(filename, <<".","j","x">>) \/ EndsWith(filename, <<".","c","s","s","x">>),
          MsgSuspicious(filename))
    \o If(filename = <<"i","n","d","e","x",".","h","t","m","l">> /\ ~Contains(file_dir, <<"p","u","b","l","i","c">>), MsgMisplaced)

DetectFileIssuesSpaceFirst(file_path) ==
    IssuesSpaceFirst(Basename(file_path), Dirname(file_path))

\* the checks of detect_file_issues on filename and file_dir
Issues(filename, file_dir) ==
    If(filename = <<"i","n","d","e","x",".","h","t","m">>, MsgCritical)
    \o If(EndsWith(filename, <<".","h","t","m">>) /\ ~EndsWith(filename, <<".","h","t","m","l">>),
          MsgIncorrect(filename))
    \o If(MatchesSpecial(Without(filename, {" ", "-", "_"})), MsgSpecial(filename))
    \o If(Contains(filename, <<" ">>), MsgSpaces(filename))
    \o If(filename # Lower(filename) /\ ~\E e \in CaseExempt : EndsWith(filename, e),
          MsgUppercase(filename))
    \o If(EndsWith(filename, <<".","j","x">>) \/ EndsWith(filename, <<".","c","s","s","x">>),
          MsgSuspicious(filename))
    \o If(filename = <<"i","n","d","e","x",".","h","t","m","l">> /\ ~Contains(file_dir, <<"p","u","b","l","i","c">>), MsgMisplaced)

\* detect_file_issues(file_path)
DetectFileIssues(file_path) == Issues(Basename(file_path), Dirname(file_path))

\* the directories os.walk does not list, the files it passes over
SkipDirs == {<<".","g","i","t">>, <<"_","_","p","y","c","a","c","h","e","_","_">>, <<"n","o","d","e","_","m","o","d","u","l","e","s">>}
NuisanceFiles == {<<".","D","S","_","S","t","o","r","e">>, <<"T","h","u","m","b","s",".","d","b">>}

\* the files scan_project_structure hands to detect_file_issues
Listed(t) ==
    {f \in DOMAIN t.files :
        /\ Under(f, RootDir)
        /\ ~\E skip \in SkipDirs : Contains(PathStr(Parent(f)), skip)
        /\ f[Len(f)] \notin NuisanceFiles}

\* the sequences that hold every element of S once
RECURSIVE Orderings(_)
Orderings(S) ==
    IF S = {} THEN {<<>>}
    ELSE UNION {{<<x>> \o o : o \in Orderings(S \ {x})} : x \in S}

\* The orders in which os.walk (top-down) can list the files below directory
\* d: the files of d, then the subtree of each directory in d; the order of
\* the entries of one directory is the file system's.
RECURSIVE WalkDir(_, _), WalkDirs(_, _)
WalkDir(t, d) ==
    UNION {UNION {{fo \o rest : rest \in WalkDirs(t, so)}
                    : so \in Orderings({e \in t.dirs : e # d /\ Parent(e) = d})}
              : fo \in Orderings({f \in Listed(t) : Parent(f) = d})}

WalkDirs(t, ds) ==
    IF ds = <<>> THEN {<<>>}
    ELSE UNION {{a \o b : b \in WalkDirs(t, Tail(ds))} : a \in WalkDir(t, Head(ds))}

WalkOrders(t) == WalkDir(t, RootDir)

RECURSIVE ScanIssues(_)
ScanIssues(order) ==
    IF order = <<>> THEN <<>>
    ELSE DetectFileIssues(Join(PathStr(Parent(Head(order))),
                               Head(order)[Len(Head(order))]))
         \o ScanIssues(Tail(order))

\* scan_project_structure(root_path): the listings and issue lists it can return
ScanProject(t) == {[listing |-> o, issues |-> ScanIssues(o)] : o \in WalkOrders(t)}

----------------------------------------------------------------------------
(* create_automatic_fixes and analyze_with_gemini *)

\* A fix entry of a parsed JSON list.  dict is FALSE for an entry that is no
\* JSON object (a string, a number); keys are the keys the object holds;
\* from_null says the value of "from" is the JSON null.
FixEntry(keys, action, from, to, reason) ==
    [dict |-> TRUE, keys |-> keys, action |-> action, from_null |-> FALSE,
     from |-> from, to |-> to, reason |-> reason]

AllKeys == {"action", "from", "to", "reason"}

\* the dict {"fixes": list}
FixesDict(list) == [keys |-> {"fixes"}, fixes |-> list]

\* the rename of original_file to original_file + "l"
ExtensionFix(original_file) ==
    FixEntry(AllKeys, "rename", original_file, original_file \o <<"l">>,
             "Fix HTML file extension")

\* issue.split(": ")[1].split(" should be")[0], parts being issue.split(": ")
ExtensionFixes(parts) ==
    IF Len(parts) < 2 THEN [raised |-> TRUE, fixes |-> <<>>]
    ELSE [raised |-> FALSE,
          fixes |-> <<ExtensionFix(Split(parts[2], <<" ","s","h","o","u","l","d"," ","b","e">>)[1])>>]

\* the fixes an issue message leads to: [raised, fixes]
IssueFixes(issue) ==
    IF ~Contains(issue, <<"s","h","o","u","l","d"," ","b","e">>) THEN [raised |-> FALSE, fixes |-> <<>>]
    ELSE IF Contains(issue, <<"i","n","d","e","x",".","h","t","m">>)
    THEN [raised |-> FALSE,
          fixes |-> <<FixEntry(AllKeys, "rename", <<"p","u","b","l","i","c","/","i","n","d","e","x",".","h","t","m">>,
                               <<"p","u","b","l","i","c","/","i","n","d","e","x",".","h","t","m","l">>,
                               "Netlify requires .html extension for main file")>>]
    ELSE IF Contains(issue, <<".","h","t","m">>) THEN ExtensionFixes(Split(issue, <<":"," ">>))
    ELSE [raised |-> FALSE, fixes |-> <<>>]

RECURSIVE FixesFor(_)
ThenFixes(first, rest) ==
    [raised |-> first.raised \/ rest.raised, fixes |-> first.fixes \o rest.fixes]

FixesFor(iss) ==
    IF iss = <<>> THEN [raised |-> FALSE, fixes |-> <<>>]
    ELSE ThenFixes(IssueFixes(Head(iss)), FixesFor(Tail(iss)))

AsDict(r) == [raised |-> r.raised, value |-> FixesDict(r.fixes)]

\* create_automatic_fixes(issues): [raised, value]; raised when the IndexError
\* of split(": ")[1] leaves the function
CreateAutomaticFixes(iss) == AsDict(FixesFor(iss))

\* a variant of the handler that gives up instead of falling back
OnExceptionNoFixes(iss) == [raised |-> FALSE, value |-> FixesDict(<<>>)]

\* the except clause of analyze_with_gemini
OnException(iss) == CreateAutomaticFixes(iss)

\* What the service can answer.  post: requests.post returns or raises;
\* body: response.json() returns or raises; candidates: the list is not
\* empty; text: what re.search(r'\{.*\}') finds in the candidate's text -
\* nothing, a block json.loads rejects, or a JSON object (object).
Answer(post, status_code, body, candidates, text, object) ==
    [post |-> post, status_code |-> status_code, body |-> body,
     candidates |-> candidates, text |-> text, object |-> object]

\* The try block of analyze_with_gemini: [raised, value], raised when an
\* exception reaches the except clause.  automatic is what
\* create_automatic_fixes(issues) does.
TryAnalyze(resp, automatic) ==
    IF resp.post = "raises" THEN [raised |-> TRUE, value |-> FixesDict(<<>>)]
    ELSE IF resp.status_code = 200
    THEN IF resp.body = "raises" THEN [raised |-> TRUE, value |-> FixesDict(<<>>)]
         ELSE IF resp.candidates
         THEN IF resp.text = "object" THEN [raised |-> FALSE, value |-> resp.object]
              ELSE IF resp.text = "invalid"
              THEN [raised |-> TRUE, value |-> FixesDict(<<>>)]
              ELSE automatic
         ELSE automatic
    ELSE automatic

\* try ... except Exception
TryExcept(tried, iss) == IF tried.raised THEN OnException(iss) ELSE tried

\* analyze_with_gemini(file_structure, issues): [raised, value]
AnalyzeWithGemini(resp, iss) ==
    TryExcept(TryAnalyze(resp, CreateAutomaticFixes(iss)), iss)

----------------------------------------------------------------------------
(* apply_critical_fixes and apply_fixes *)

\* content of a file the tree started with, and of a file apply_fixes wrote
Original(path) == [kind |-> "original", origin |-> path, reason |-> ""]
Placeholder(reason) == [kind |-> "created", origin |-> <<>>, reason |-> reason]

LogEntry(op, from, to) == [op |-> op, from |-> from, to |-> to]

\* a variant of the table without the move of the root's index.htm
critical_fixes_rename_only ==
    << <<<<"p","u","b","l","i","c","/","i","n","d","e","x",".","h","t","m">>, <<"p","u","b","l","i","c","/","i","n","d","e","x",".","h","t","m","l">>, "Netlify requires .html extension">> >>

critical_fixes ==
    << <<<<"p","u","b","l","i","c","/","i","n","d","e","x",".","h","t","m">>, <<"p","u","b","l","i","c","/","i","n","d","e","x",".","h","t","m","l">>, "Netlify requires .html extension">>,
       <<<<"i","n","d","e","x",".","h","t","m">>, <<"p","u","b","l","i","c","/","i","n","d","e","x",".","h","t","m","l">>, "Move and fix extension for Netlify">> >>

\* the outcomes of a step; st is [fs, applied, trace]
Outcome(st, t, entries, what) ==
    [fs |-> t, applied |-> st.applied \o entries, trace |-> Append(st.trace, what)]

\* shutil.move and the append to applied_fixes inside the try block; mv is
\* what shutil.move did, mk what os.makedirs did before it
Moved(st, entry, mk, mv) ==
    IF ~mv.ok THEN Outcome(st, mk.fs, <<>>, "failed")
    ELSE Outcome(st, mv.fs, <<LogEntry("CRITICAL", entry[1], entry[2])>>, "moved")

MoveCritical(st, entry, full_from, full_to, mk) ==
    IF ~mk.ok THEN Outcome(st, mk.fs, <<>>, "failed")
    ELSE Moved(st, entry, mk, ShutilMove(mk.fs, full_from, full_to))

CriticalFixAt(st, entry, full_from, full_to) ==
    IF Exists(st.fs, full_from)
    THEN MoveCritical(st, entry, full_from, full_to, Makedirs(st.fs, Dirname(full_to)))
    ELSE Outcome(st, st.fs, <<>>, "absent")

\* one entry (from_rel, to_rel, reason) of critical_fixes
ApplyCriticalFix(st, entry) ==
    CriticalFixAt(st, entry, Join(root_path, entry[1]), Join(root_path, entry[2]))

RECURSIVE ApplyCriticalList(_, _)
ApplyCriticalList(st, table) ==
    IF table = <<>> THEN st
    ELSE ApplyCriticalList(ApplyCriticalFix(st, Head(table)), Tail(table))

\* apply_critical_fixes(root_path, applied_fixes)
ApplyCriticalFixes(t) ==
    ApplyCriticalList([fs |-> t, applied |-> <<>>, trace |-> <<>>], critical_fixes)

\* a variant of the except clause that records the failed fix as applied
CaughtLogged(st, t) == Outcome(st, t, <<LogEntry("Failed", <<>>, <<>>)>>, "failed")

\* the except clause of the loop: the error is logged, the fix adds nothing
\* to applied_fixes, the tree stays as the failed fix left it
Caught(st, t) == Outcome(st, t, <<>>, "failed")

\* os.rename and the append, rn being what os.rename did
Renamed(st, from_path, to_path, mk, rn) ==
    IF ~rn.ok THEN Caught(st, mk.fs)
    ELSE Outcome(st, rn.fs, <<LogEntry("Renamed", from_path, to_path)>>, "renamed")

RenameBranch(st, from_path, to_path, full_from, full_to, mk) ==
    IF ~mk.ok THEN Caught(st, mk.fs)
    ELSE Renamed(st, from_path, to_path, mk, Rename(mk.fs, full_from, full_to))

\* the write and the append, wr being what open(full_to, 'w') did
Written(st, to_path, mk, wr) ==
    IF ~wr.ok THEN Caught(st, mk.fs)
    ELSE Outcome(st, wr.fs, <<LogEntry("Created", <<>>, to_path)>>, "created")

CreateBranch(st, to_path, reason, full_to, mk) ==
    IF ~mk.ok THEN Caught(st, mk.fs)
    ELSE IF EndsWith(to_path, <<"/">>)
    THEN Outcome(st, mk.fs, <<LogEntry("Created", <<>>, to_path)>>, "created")
    ELSE Written(st, to_path, mk, OpenWrite(mk.fs, full_to, Placeholder(reason)))

\* the two branches of the loop body
FixAt(st, action, from_path, to_path, reason, full_from, full_to) ==
    IF action = "rename" /\ Exists(st.fs, full_from) /\ full_from # full_to
    THEN RenameBranch(st, from_path, to_path, full_from, full_to,
                      Makedirs(st.fs, Dirname(full_to)))
    ELSE IF action = "create" /\ ~Exists(st.fs, full_to)
    THEN CreateBranch(st, to_path, reason, full_to, Makedirs(st.fs, Dirname(full_to)))
    ELSE Outcome(st, st.fs, <<>>, "skipped")

FixWith(st, action, from_path, to_path, reason) ==
    FixAt(st, action, from_path, to_path, reason,
          Join(root_path, from_path), Join(root_path, to_path))

\* one iteration of the loop of apply_fixes
ApplyFix(st, fix) ==
    IF ~fix.dict THEN Caught(st, st.fs)
    ELSE IF "from" \in fix.keys /\ fix.from_null THEN Caught(st, st.fs)
    ELSE FixWith(st,
                 IF "action" \in fix.keys THEN fix.action ELSE "None",
                 LStripSlash(IF "from" \in fix.keys THEN fix.from ELSE <<>>),
                 LStripSlash(IF "to" \in fix.keys THEN fix.to ELSE <<>>),
                 IF "reason" \in fix.keys THEN fix.reason ELSE "No reason provided")

RECURSIVE ApplyList(_, _)
ApplyList(st, list) ==
    IF list = <<>> THEN st
    ELSE ApplyList(ApplyFix(st, Head(list)), Tail(list))

\* fixes.get('fixes', [])
FixList(d) == IF "fixes" \in d.keys THEN d.fixes ELSE <<>>

\* apply_fixes(fixes, root_path): the tree it leaves, the log it returns and
\* what happened to the critical fixes (critical) and to the listed ones (listed)
Returned(c, l) ==
    [fs |-> l.fs, applied |-> l.applied, critical |-> c.trace, listed |-> l.trace]

TheLoop(c, list) ==
    Returned(c, ApplyList([fs |-> c.fs, applied |-> c.applied, trace |-> <<>>], list))

ApplyFixes(t, d) == TheLoop(ApplyCriticalFixes(t), FixList(d))

----------------------------------------------------------------------------
(* The inputs: initial file trees and answers of the advisory service *)

\* the files an initial tree of Spec can hold, relative to the root
FileUniverse ==
    { <<<<"i","n","d","e","x",".","h","t","m">>>>, <<<<"i","n","d","e","x",".","h","t","m","l">>>>, <<<<"a","b","o","u","t",".","h","t","m">>>>, <<<<"a",":"," ","b",".","h","t","m">>>>,
      <<<<"p","u","b","l","i","c"," ","s","h","o","u","l","d"," ","b","e",".","h","t","m">>>>, <<<<"m","y","i","n","d","e","x",".","h","t","m">>>>, <<<<"f","o","o"," ","b","a","r",".","J","X">>>>,
      <<<<"W","e","i","r","d"," ","F","i","l","e","!",".","j","x">>>>, <<<<"R","E","A","D","M","E",".","m","d">>>>, <<<<"p","u","b","l","i","c">>>>,
      <<<<"p","u","b","l","i","c">>, <<"i","n","d","e","x",".","h","t","m">>>>, <<<<"p","u","b","l","i","c">>, <<"i","n","d","e","x",".","h","t","m","l">>>>,
      <<<<"s","u","b">>, <<"a","b","o","u","t",".","h","t","m">>>>, <<<<".","g","i","t">>, <<"x",".","h","t","m">>>> }

\* the files an initial tree of SpecAdvisory can hold, relative to the root
AdvisoryFileUniverse ==
    { <<<<"i","n","d","e","x",".","h","t","m">>>>, <<<<"i","n","d","e","x",".","h","t","m","l">>>>, <<<<"a","b","o","u","t",".","h","t","m">>>> }

\* a file outside the project root, present in every tree
OutsideFile == <<<<"o">>>>

ProperPrefixes(path) == {SubSeq(path, 1, n) : n \in 0..(Len(path) - 1)}

\* the tree that holds the files rel (relative to the root) and OutsideFile
Tree(rel) ==
    LET F == {RootDir \o p : p \in rel} \cup {OutsideFile}
    IN  [files |-> [f \in F |-> Original(f)],
         dirs |-> {<<>>, RootDir} \cup UNION {ProperPrefixes(f) : f \in F}]

\* no path is both a regular file and a directory
WellFormed(rel) == \A p, q \in rel : p \notin ProperPrefixes(q)

Trees(universe, max) ==
    {Tree(rel) : rel \in {r \in SUBSET universe : Cardinality(r) <= max /\ WellFormed(r)}}

\* the entries the advisory service can put in its fix list
NotADict ==
    [dict |-> FALSE, keys |-> {}, action |-> "None", from_null |-> FALSE,
     from |-> <<>>, to |-> <<>>, reason |-> ""]

FixUniverse ==
    { FixEntry(AllKeys, "rename", <<"/","a","b","o","u","t",".","h","t","m">>, <<"a","b","o","u","t",".","h","t","m","l">>, "fix extension"),
      FixEntry(AllKeys, "rename", <<"a","b","o","u","t",".","h","t","m">>, <<"i","n","d","e","x",".","h","t","m","l">>, "make it the entry point"),
      FixEntry({"action", "to", "reason"}, "create", <<>>, <<".",".","/","x">>, "add file"),
      FixEntry(AllKeys, "rename", <<".",".","/","o">>, <<"o">>, "bring into the project"),
      FixEntry({"action", "to"}, "create", <<>>, <<"d","/",".">>, ""),
      FixEntry({"action", "to", "reason"}, "create", <<>>, <<"d">>, "add file"),
      NotADict }

FixLists == UNION {[1..n -> FixUniverse] : n \in 0..MaxFixes}

\* the answers after which the code falls back to create_automatic_fixes
Timeout == Answer("raises", 0, "raises", FALSE, "none", FixesDict(<<>>))
ServerError == Answer("returns", 500, "json", FALSE, "none", FixesDict(<<>>))
NotJson == Answer("returns", 200, "raises", FALSE, "none", FixesDict(<<>>))
NoCandidates == Answer("returns", 200, "json", FALSE, "none", FixesDict(<<>>))
NoBlock == Answer("returns", 200, "json", TRUE, "none", FixesDict(<<>>))
InvalidBlock == Answer("returns", 200, "json", TRUE, "invalid", FixesDict(<<>>))

FailedAnswers == {Timeout, ServerError, NotJson, NoCandidates, NoBlock, InvalidBlock}

\* the answers that carry a JSON object: a fix list, or no "fixes" key
ObjectAnswers ==
    {Answer("returns", 200, "json", TRUE, "object", FixesDict(l)) : l \in FixLists}
    \cup {Answer("returns", 200, "json", TRUE, "object", [keys |-> {}, fixes |-> <<>>])}

----------------------------------------------------------------------------
(* run_auto_heal *)

NoTrace == [critical |-> <<>>, listed |-> <<>>]

InitWith(trees, answers) ==
    /\ input \in trees
    /\ response \in answers
    /\ fs = input
    /\ pc = "start"
    /\ file_structure = <<>>
    /\ issues = <<>>
    /\ fixes = FixesDict(<<>>)
    /\ before = input
    /\ applied_fixes = <<>>
    /\ trace = NoTrace
    /\ again = FALSE

\* the service is down or answers nothing usable
Init == InitWith(Trees(FileUniverse, MaxFiles), FailedAnswers)

\* the service answers with a JSON object
InitAdvisory == InitWith(Trees(AdvisoryFileUniverse, MaxAdvisoryFiles), ObjectAnswers)

\* file_structure, issues = self.scan_project_structure(root_path)
ScanProjectStructure ==
    /\ pc = "start"
    /\ \E r \in ScanProject(fs) :
          /\ file_structure' = r.listing
          /\ issues' = r.issues
    /\ pc' = "scanned"
    /\ fixes' = FixesDict(<<>>)
    /\ applied_fixes' = <<>>
    /\ trace' = NoTrace
    /\ UNCHANGED <<input, response, fs, before, again>>

\* if not issues: return True
NoIssues ==
    /\ pc = "scanned"
    /\ issues = <<>>
    /\ pc' = "clean"
    /\ UNCHANGED <<input, response, fs, file_structure, issues, fixes, before,
                   applied_fixes, trace, again>>

\* fixes = self.analyze_with_gemini(file_structure, issues)
Analyze ==
    /\ pc = "scanned"
    /\ issues # <<>>
    /\ \E r \in {AnalyzeWithGemini(response, issues)} :
          /\ pc' = IF r.raised THEN "crashed" ELSE "analyzed"
          /\ fixes' = r.value
    /\ UNCHANGED <<input, response, fs, file_structure, issues, before,
                   applied_fixes, trace, again>>

\* applied_fixes = self.apply_fixes(fixes, root_path)
Apply ==
    /\ pc = "analyzed"
    /\ \E r \in {ApplyFixes(fs, fixes)} :
          /\ fs' = r.fs
          /\ applied_fixes' = r.applied
          /\ trace' = [critical |-> r.critical, listed |-> r.listed]
    /\ before' = fs
    /\ pc' = "healed"
    /\ UNCHANGED <<input, response, file_structure, issues, fixes, again>>

\* the program is started again on the tree it left
Rerun ==
    /\ pc \in {"clean", "healed"}
    /\ pc' = "start"
    /\ again' = TRUE
    /\ UNCHANGED <<input, response, fs, file_structure, issues, fixes, before,
                   applied_fixes, trace>>

Next == ScanProjectStructure \/ NoIssues \/ Analyze \/ Apply \/ Rerun

Spec == Init /\ [][Next]_vars

SpecAdvisory == InitAdvisory /\ [][Next]_vars

----------------------------------------------------------------------------
(* The properties *)

Range(s) == {s[i] : i \in 1..Len(s)}
RemoveAt(s, i) == SubSeq(s, 1, i - 1) \o SubSeq(s, i + 1, Len(s))
Count(s, vals) == Cardinality({i \in 1..Len(s) : s[i] \in vals})
NameOf(path) == path[Len(path)]

PublicDir == RootDir \o <<<<"p","u","b","l","i","c">>>>
PublicIndexHtm == PublicDir \o <<<<"i","n","d","e","x",".","h","t","m">>>>
PublicIndexHtml == PublicDir \o <<<<"i","n","d","e","x",".","h","t","m","l">>>>
RootIndexHtm == RootDir \o <<<<"i","n","d","e","x",".","h","t","m">>>>

\* the state of the loop of apply_fixes before the fix at position i
LoopStateFrom(c, list) ==
    ApplyList([fs |-> c.fs, applied |-> c.applied, trace |-> <<>>], list)

LoopStateBefore(i) ==
    LoopStateFrom(ApplyCriticalFixes(before), SubSeq(FixList(fixes), 1, i - 1))

\* the listed fixes behind position i fare as they do in the list without fix i
AsIfAbsent(i) ==
    \E alt \in {ApplyFixes(before, FixesDict(RemoveAt(FixList(fixes), i)))} :
        /\ alt.listed = RemoveAt(trace.listed, i)
        /\ alt.applied = applied_fixes

\* C1 as stated: a fix that raises is caught, leaves no entry in the log, and
\* every fix after it is attempted exactly as it would have been had the
\* failed fix been absent from the list.
C1_FailedFixAsIfAbsent ==
    pc = "healed" =>
        /\ Len(trace.listed) = Len(FixList(fixes))
        /\ \A i \in 1..Len(trace.listed) : trace.listed[i] = "failed" => AsIfAbsent(i)

\* C1 as amended: a fix that raises is caught and leaves no entry in the log
\* (the log holds one entry per critical move and per listed fix that was
\* applied), every fix after it is still attempted and apply_fixes returns;
\* the later fixes run on the tree as the failed fix left it, so they fare as
\* if it had been absent whenever it changed nothing in the tree.
C1_FailedFixSkipped ==
    pc = "healed" =>
        /\ Len(trace.listed) = Len(FixList(fixes))
        /\ Len(applied_fixes) =
              Count(trace.critical, {"moved"}) + Count(trace.listed, {"renamed", "created"})
        /\ \A i \in 1..Len(trace.listed) :
              trace.listed[i] = "failed" =>
                 \E pre \in {LoopStateBefore(i)} :
                    \E post \in {ApplyFix(pre, FixList(fixes)[i])} :
                        /\ post.applied = pre.applied
                        /\ post.fs = pre.fs => AsIfAbsent(i)

\* a fix failed and the fix after it was applied
C1_Witness ==
    /\ pc = "healed"
    /\ \E i \in 1..(Len(trace.listed) - 1) :
          /\ trace.listed[i] = "failed"
          /\ trace.listed[i + 1] \in {"renamed", "created"}

\* C2: analyze_with_gemini never lets an error reach its caller, and after a
\* failed request, a non-200 status, an answer without candidates, a text
\* without a {...} block or a block that is no JSON it returns what
\* create_automatic_fixes(issues) returns.
C2_FallbackEquivalence ==
    /\ pc # "crashed"
    /\ (pc \in {"analyzed", "healed"} /\ response \in FailedAnswers) =>
          fixes = CreateAutomaticFixes(issues).value

\* the service answered HTTP 500 and the fallback proposed a rename
C2_Witness ==
    /\ pc = "analyzed"
    /\ response = ServerError
    /\ FixList(fixes) # <<>>

\* C3: a second scan after a run of the deterministic pipeline finds no issue
\* and create_automatic_fixes then proposes nothing.
C3_Idempotent ==
    (again /\ pc = "scanned" /\ response \in FailedAnswers) =>
        /\ issues = <<>>
        /\ FixList(CreateAutomaticFixes(issues).value) = <<>>

\* C4: a move onto an existing destination is skipped, so every file that was
\* there before apply_fixes is still there, under some name, afterwards.
C4_NoFileLost ==
    pc = "healed" =>
        \A p \in DOMAIN before.files :
            \E q \in DOMAIN fs.files : fs.files[q] = before.files[p]

PublicRenamed ==
    \E k \in 1..Len(applied_fixes) :
        applied_fixes[k].op = "Renamed" /\ applied_fixes[k].from = <<"p","u","b","l","i","c">>

C6_Placeholder ==
    (/\ ~again
     /\ pc \in {"clean", "healed"}
     /\ response \in FailedAnswers
     /\ ~Present(input, PublicIndexHtml)
     /\ ~Present(input, PublicIndexHtm)
     /\ ~Present(input, RootIndexHtm)) =>
        /\ IsFile(fs, PublicIndexHtml)
        /\ fs.files[PublicIndexHtml].kind = "created"

\* the path string scan_project_structure hands to detect_file_issues
FilePath(f) == Join(PathStr(Parent(f)), NameOf(f))

\* C7: every listed file whose name ends in .htm is flagged with the
\* incorrect-extension issue, the CRITICAL issue appears exactly when a listed
\* file is named index.htm, and create_automatic_fixes proposes for it a
\* rename whose 'from' names the file and whose 'to' is its stem plus .html.
C7_HtmRename ==
    (pc = "analyzed" /\ response \in FailedAnswers) =>
        /\ \A f \in Listed(fs) :
              EndsWith(NameOf(f), <<".","h","t","m">>) =>
                 /\ MsgIncorrect(NameOf(f)) \in Range(issues)
                 /\ \E k \in 1..Len(FixList(fixes)) :
                       LET fix == FixList(fixes)[k]
                       IN  /\ fix.action = "rename"
                           /\ Basename(fix.from) = NameOf(f)
                           /\ Basename(fix.to) =
                                 SubSeq(NameOf(f), 1, Len(NameOf(f)) - 4) \o <<".","h","t","m","l">>
        /\ (MsgCritical \in Range(issues)) <=>
              (\E f \in Listed(fs) : NameOf(f) = <<"i","n","d","e","x",".","h","t","m">>)

\* C8: a file with the extension .jx or .JX (foo bar.JX) is, after the
\* deterministic pipeline, gone under its old name and present in the same
\* directory under a name without spaces and upper case that ends in .js.
C8_RoundTripNaming ==
    (/\ ~again
     /\ pc \in {"clean", "healed"}
     /\ response \in FailedAnswers) =>
        \A p \in DOMAIN input.files :
            (Under(p, RootDir) /\ EndsWith(Lower(NameOf(p)), <<".","j","x">>)) =>
               /\ ~Present(fs, p)
               /\ \E q \in DOMAIN fs.files :
                     /\ Parent(q) = Parent(p)
                     /\ fs.files[q] = input.files[p]
                     /\ ~Contains(NameOf(q), <<" ">>)
                     /\ NameOf(q) = Lower(NameOf(q))
                     /\ EndsWith(NameOf(q), <<".","j","s">>)

\* the kind of an issue message
Kind(msg) ==
    IF msg = MsgCritical THEN "CRITICAL"
    ELSE IF StartsWith(msg, <<"I","n","c","o","r","r","e","c","t"," ","e","x","t","e","n","s","i","o","n",":"," ">>) THEN "HTM_EXTENSION"
    ELSE IF StartsWith(msg, <<"S","p","e","c","i","a","l"," ","c","h","a","r","a","c","t","e","r","s"," ","i","n"," ","f","i","l","e","n","a","m","e",":"," ">>) THEN "SPECIAL_CHAR"
    ELSE IF StartsWith(msg, <<"S","p","a","c","e","s"," ","i","n"," ","f","i","l","e","n","a","m","e",":"," ">>) THEN "SPACE"
    ELSE IF StartsWith(msg, <<"U","p","p","e","r","c","a","s","e"," ","l","e","t","t","e","r","s"," ","i","n"," ","f","i","l","e","n","a","m","e",":"," ">>) THEN "UPPERCASE"
    ELSE IF StartsWith(msg, <<"S","u","s","p","i","c","i","o","u","s"," ","f","i","l","e"," ","e","x","t","e","n","s","i","o","n",":"," ">>) THEN "SUSPICIOUS_EXTENSION"
    ELSE IF msg = MsgMisplaced THEN "MISPLACED_INDEX"
    ELSE "UNKNOWN"

Kinds(msgs) == [i \in 1..Len(msgs) |-> Kind(msgs[i])]

\* the rules of the classifier, stated on the name and the directory
Matches(kind, filename, file_dir) ==
    CASE kind = "CRITICAL" -> filename = <<"i","n","d","e","x",".","h","t","m">>
      [] kind = "HTM_EXTENSION" ->
            Len(filename) >= 4 /\ From(filename, Len(filename) - 3) = <<".","h","t","m">>
      [] kind = "SPECIAL_CHAR" ->
            \E i \in 1..Len(filename) :
                filename[i] \in {"!", "@", "#", "$", "%", "^", "&", "*", "(", ")",
                                 "\t", "\n", "\r"}
      [] kind = "SPACE" -> \E i \in 1..Len(filename) : filename[i] = " "
      [] kind = "UPPERCASE" ->
            /\ \E i \in 1..Len(filename) : filename[i] \in Range(UpperCase)
            /\ \A e \in CaseExempt : ~EndsWith(filename, e)
      [] kind = "SUSPICIOUS_EXTENSION" ->
            EndsWith(filename, <<".","j","x">>) \/ EndsWith(filename, <<".","c","s","s","x">>)
      [] kind = "MISPLACED_INDEX" ->
            filename = <<"i","n","d","e","x",".","h","t","m","l">> /\ ~Contains(file_dir, <<"p","u","b","l","i","c">>)

\* the kinds among order that the file matches, in that order
RECURSIVE MatchedKinds(_, _, _)
MatchedKinds(order, filename, file_dir) ==
    IF order = <<>> THEN <<>>
    ELSE (IF Matches(Head(order), filename, file_dir) THEN <<Head(order)>> ELSE <<>>)
         \o MatchedKinds(Tail(order), filename, file_dir)

RECURSIVE ExpectedKinds(_, _)
ExpectedKinds(order, listing) ==
    IF listing = <<>> THEN <<>>
    ELSE MatchedKinds(order, NameOf(Head(listing)), PathStr(Parent(Head(listing))))
         \o ExpectedKinds(order, Tail(listing))

\* the order of the rules in the specification; the .htm rule with its
\* CRITICAL sub-kind and the suspicious-extension rule are its BAD_EXTENSION
StatedOrder == <<"SPACE", "SPECIAL_CHAR", "UPPERCASE", "CRITICAL", "HTM_EXTENSION",
                 "SUSPICIOUS_EXTENSION", "MISPLACED_INDEX">>

\* the order in which detect_file_issues evaluates them
CodeOrder == <<"CRITICAL", "HTM_EXTENSION", "SPECIAL_CHAR", "SPACE", "UPPERCASE",
               "SUSPICIOUS_EXTENSION", "MISPLACED_INDEX">>

\* C9 as stated: the issues of a file are one per matching rule, in the order
\* SPACE, SPECIAL_CHAR, UPPERCASE, BAD_EXTENSION, MISPLACED_INDEX.
C9_StatedRuleOrder ==
    pc = "scanned" => Kinds(issues) = ExpectedKinds(StatedOrder, file_structure)

\* C9 as amended: the issues of a file are one per matching check, none
\* dropped, in the order CRITICAL (index.htm), .htm extension, SPECIAL_CHAR,
\* SPACE, UPPERCASE, suspicious extension, MISPLACED_INDEX: the extension issue
\* of a .htm name precedes its space issue.
C9_CodeRuleOrder ==
    pc = "scanned" => Kinds(issues) = ExpectedKinds(CodeOrder, file_structure)

\* a name with a space and the .htm extension was scanned: extension first
C9_Witness ==
    /\ pc = "scanned"
    /\ file_structure = <<RootDir \o <<<<"a",":"," ","b",".","h","t","m">>>>>>
    /\ Kinds(issues) = <<"HTM_EXTENSION", "SPACE">>

\* C10: whatever the fix list, apply_fixes creates, moves and removes nothing
\* outside the root: the tree outside the root stays as it was.
C10_ConfinedToRoot ==
    /\ {d \in fs.dirs : ~Under(d, RootDir)} = {d \in input.dirs : ~Under(d, RootDir)}
    /\ {f \in DOMAIN fs.files : ~Under(f, RootDir)}
          = {f \in DOMAIN input.files : ~Under(f, RootDir)}
    /\ \A f \in DOMAIN fs.files :
          (~Under(f, RootDir) /\ f \in DOMAIN input.files) => fs.files[f] = input.files[f]

====
